---- MODULE Spec2Model ----
(***************************************************************************)
(* CSANet.evaluation / CSANet.iteration (deepfashion/models/csa_net.py)    *)
(* and the outfit handlers of the Gradio demo                              *)
(* (fashion_recommenders/utils/demo.py) as state machines.                 *)
(*                                                                         *)
(* Numbers.  Embeddings are one-dimensional integers; a distance is kept   *)
(* in tenths, so that the margin 0.3 of the triplet loss is the integer 3. *)
(* The eps of torch's pairwise distance (1e-6) is left out.  A mean is     *)
(* kept as an exact fraction <<numerator, denominator>>.                   *)
(*                                                                         *)
(* Tensors are functions over 0-based indices, as in the code.  A          *)
(* dataloader yields `remaining` batches of B consecutive rows of its      *)
(* dataset, starting at row `offset`; B is the first dimension of every    *)
(* tensor of a batch.                                                      *)
(***************************************************************************)
EXTENDS Integers, Sequences, FiniteSets, TLC

\* ---------------------------------------------------------------- bounds
MaxBatches == 2
MaxFitbBatch == 3
MaxTripletBatch == 2
MaxItems == 2
NumCategory == 2
MaxItemId == 2
MaxOutfit == 2
MaxImage == 2
NumUsers == 2

\* TripletMarginLoss(margin=0.3), in tenths
Margin == 3

VARIABLES
    call,           \* which method runs: "evaluation" | "iteration" | "demo"
    pc,             \* position in the running method
    error,          \* the exception raised ("" when none)
    is_train, optimizer, scheduler, use_wandb,     \* arguments
    offset,         \* dataset row the dataloader starts at
    remaining,      \* batches the dataloader has still to yield
    iter,           \* the loop variable `iter` (0: not bound yet)
    B,              \* the batch size of the dataloader
    b_i,            \* batch_i / b_i: the row the inner loop is at
    row,            \* the row of the batch read last
    pairs,          \* evaluation: the distances computed for that row
    ans, correct, total,
    triplets,       \* iteration: the triplets formed for that row
    running_loss,   \* the list running_loss, as [sum, len]
    total_loss,     \* fraction
    calls,          \* update calls made for the current batch, in order
    theta,          \* version of the parameters (optimizer.step changes it)
    opt_steps, sched_steps, wandb_logs,
    result,         \* <<>> until the method returns, then its value
    batch_means,    \* the batch losses so far (fractions)
    task, items, gallery, outfit_selected_idx, sent   \* demo

csaVars == <<pc, error, is_train, optimizer, scheduler, use_wandb, offset, remaining,
             iter, B, b_i, row, pairs, ans, correct, total, triplets,
             running_loss, total_loss, calls, theta, opt_steps, sched_steps,
             wandb_logs, result, batch_means>>
demoVars == <<task, items, gallery, outfit_selected_idx, sent>>
vars == <<call, csaVars, demoVars>>

\* ---------------------------------------------------------------- helpers
Abs(x) == IF x < 0 THEN -x ELSE x
Max(x, y) == IF x < y THEN y ELSE x

RECURSIVE SetSum(_, _)
\* sum of f[x] over the finite set S
SetSum(f, S) ==
    IF S = {} THEN 0
    ELSE LET x == CHOOSE y \in S : TRUE
         IN  f[x] + SetSum(f, S \ {x})

\* fractions <<n, d>>
FracAdd(p, q) == <<p[1] * q[2] + q[1] * p[2], p[2] * q[2]>>
FracEq(p, q) == p[1] * q[2] = q[1] * p[2]

RECURSIVE FracSum(_)
FracSum(s) == IF s = <<>> THEN <<0, 1>> ELSE FracAdd(s[1], FracSum(Tail(s)))

\* ---------------------------------------------------------------- data
Pos == 0 .. (MaxItems - 1)
Categories == 0 .. (NumCategory - 1)
ItemIds == 1 .. MaxItemId

\* the dataset's items: an item has a category and an image
CategoryOf(id) == id % NumCategory
ImgOf(id) == id

\* an outfit (the items of a question, the candidates, the anchors or the
\* negatives of a row): up to MaxItems distinct items, in any order
Outfits ==
    UNION { { o \in [1 .. n -> ItemIds] :
                \A i, j \in 1 .. n : i # j => o[i] # o[j] } : n \in 0 .. MaxItems }

RECURSIVE SetToSeq(_)
\* the elements of a finite set, listed in some fixed order
SetToSeq(S) ==
    IF S = {} THEN <<>>
    ELSE LET x == CHOOSE y \in S : TRUE
         IN  <<x>> \o SetToSeq(S \ {x})

OutfitSeq == SetToSeq(Outfits)

\* the padded tensors of an outfit: padding (input_mask TRUE) fills the tail
Collate(o) ==
    [ category   |-> [i \in Pos |-> IF i < Len(o) THEN CategoryOf(o[i + 1]) ELSE 0],
      img        |-> [i \in Pos |-> IF i < Len(o) THEN ImgOf(o[i + 1]) ELSE 0],
      input_mask |-> [i \in Pos |-> i >= Len(o)] ]

EmptyInputs == Collate(<<>>)

\* the fill-in-the-blank dataset: row k has a question outfit and candidates
NumFitbRows == Len(OutfitSeq) * Len(OutfitSeq)
FitbRow(k) ==
    [ questions  |-> Collate(OutfitSeq[(k % Len(OutfitSeq)) + 1]),
      candidates |-> Collate(OutfitSeq[((k \div Len(OutfitSeq)) % Len(OutfitSeq)) + 1]) ]

\* the triplet dataset: row k has anchors, one positive item and negatives
NumTripletRows == Len(OutfitSeq) * Len(OutfitSeq) * MaxItemId
TripletRow(k) ==
    [ anchors   |-> Collate(OutfitSeq[(k % Len(OutfitSeq)) + 1]),
      negatives |-> Collate(OutfitSeq[((k \div Len(OutfitSeq)) % Len(OutfitSeq)) + 1]),
      positives |-> Collate(<<((k \div (Len(OutfitSeq) * Len(OutfitSeq))) % MaxItemId) + 1>>) ]

\* the dataset row that is row b of the batch the loop is at
RowIndex(b) == offset + (iter - 1) * B + b

\* torch.sum(~input_mask)
NumUnpadded(mask) == Cardinality({i \in DOMAIN mask : ~mask[i]})

\* ---------------------------------------------------------------- network
\* img_encoder: a function of the image that the parameters determine
ImgEncoder(th, img) == img + th

\* the attention-weighted subspace mask: a function of the item's category and
\* the target category that the parameters determine
SubspaceMask(th, input_category, target_category) ==
    1 + ((input_category + 2 * target_category + th) % 3)

\* _get_embedding: the masked embedding of every position, zero where padded
GetEmbedding(th, inputs, target_category) ==
    [i \in Pos |->
        IF inputs.input_mask[i] THEN 0
        ELSE ImgEncoder(th, inputs.img[i])
               * SubspaceMask(th, inputs.category[i], target_category)]

\* forward with target_category=None: the embeddings for all categories
Forward(th, inputs) ==
    [ input_mask |-> inputs.input_mask,
      img_embed  |-> [c \in Categories |-> GetEmbedding(th, inputs, c)] ]

\* nn.PairwiseDistance(p=2), in tenths
PairwiseDistance(x, y) == 10 * Abs(x - y)

\* nn.TripletMarginLoss(margin=0.3, reduction='mean') of one triplet
TripletMarginLoss(a, p, n) ==
    Max(PairwiseDistance(a, p) - PairwiseDistance(a, n) + Margin, 0)

\* ---------------------------------------------------------------- evaluation
\* the keys of a fill-in-the-blank batch (a dict); len(batch) counts them
FitbBatchKeys == {"questions", "candidates"}
LenBatch == Cardinality(FitbBatchKeys)

\* EvalPair with each embedding conditioned on its own item's category
EvalPairOwnCategory(question_outputs, candidate_outputs, r, c_i, q_i) ==
    LET q_category == r.questions.category[q_i]
        c_category == r.candidates.category[c_i]
        q == question_outputs.img_embed[q_category][q_i]
        c == candidate_outputs.img_embed[c_category][c_i]
    IN  [ c_i |-> c_i, q_i |-> q_i,
          q_cond |-> q_category,
          c_cond |-> c_category,
          q |-> q, c |-> c,
          dist |-> PairwiseDistance(q, c) ]

\* lines 95-100: the distance of question q_i and candidate c_i of a row
EvalPair(question_outputs, candidate_outputs, r, c_i, q_i) ==
    LET q_category == r.questions.category[q_i]
        c_category == r.candidates.category[c_i]
        q == question_outputs.img_embed[c_category][q_i]
        c == candidate_outputs.img_embed[q_category][c_i]
    IN  [ c_i |-> c_i, q_i |-> q_i,
          q_cond |-> c_category,      \* the category q was conditioned on
          c_cond |-> q_category,      \* the category c was conditioned on
          q |-> q, c |-> c,
          dist |-> PairwiseDistance(q, c) ]

\* lines 92-100: every distance computed for a row
EvalPairs(th, r) ==
    LET question_outputs == Forward(th, r.questions)
        candidate_outputs == Forward(th, r.candidates)
    IN  { EvalPair(question_outputs, candidate_outputs, r, c_i, q_i) :
            c_i \in 0 .. (NumUnpadded(candidate_outputs.input_mask) - 1),
            q_i \in 0 .. (NumUnpadded(question_outputs.input_mask) - 1) }

\* lines 91-101: dists[c_i] is the sum of the distances of candidate c_i
Dists(P, r) ==
    [c_i \in 0 .. (NumUnpadded(r.candidates.input_mask) - 1) |->
        SetSum([p \in P |-> p.dist], {p \in P : p.c_i = c_i})]

\* np.argmin: the first index of the minimum
ArgMin(d) ==
    CHOOSE k \in DOMAIN d :
        /\ \A j \in DOMAIN d : d[k] <= d[j]
        /\ \A j \in DOMAIN d : j < k => d[j] > d[k]

EmptyFitbRow == [questions |-> EmptyInputs, candidates |-> EmptyInputs]

\* the for-header of line 81 yields a batch; lines 82-88
EvalNextBatch ==
    /\ call = "evaluation" /\ pc = "for" /\ remaining > 0
    /\ remaining' = remaining - 1
    /\ iter' = iter + 1
    /\ ans' = <<>>
    /\ b_i' = 0
    /\ pc' = "rows"
    /\ UNCHANGED <<call, error, is_train, optimizer, scheduler, use_wandb,
                   offset, B, row, pairs, correct, total, triplets,
                   running_loss, total_loss, calls, theta, opt_steps,
                   sched_steps, wandb_logs, result, batch_means,
                   demoVars>>

\* one pass of the loop of line 90 (lines 91-103)
EvalRow ==
    /\ call = "evaluation" /\ pc = "rows" /\ b_i < LenBatch
    /\ IF b_i >= B
       THEN \* candidate_outputs['input_mask'][batch_i]: index out of range
            /\ pc' = "raised" /\ error' = "IndexError"
            /\ UNCHANGED <<row, pairs, ans, total, b_i>>
       ELSE   LET r == FitbRow(RowIndex(b_i))
                  P == EvalPairs(theta, r)
                  dists == Dists(P, r)
              IN  /\ row' = r
                  /\ pairs' = P
                  /\ IF DOMAIN dists = {}
                     THEN \* np.argmin of an empty array
                          /\ pc' = "raised" /\ error' = "ValueError"
                          /\ UNCHANGED <<ans, total, b_i>>
                     ELSE /\ ans' = Append(ans, ArgMin(dists))
                          /\ total' = total + 1
                          /\ b_i' = b_i + 1
                          /\ UNCHANGED <<pc, error>>
    /\ UNCHANGED <<call, is_train, optimizer, scheduler, use_wandb, remaining,
                   iter, B, correct, triplets, running_loss, total_loss, calls,
                   theta, opt_steps, sched_steps, wandb_logs, result, offset,
                   batch_means, demoVars>>

\* lines 105-114, after the loop of line 90
EvalTally ==
    /\ call = "evaluation" /\ pc = "rows" /\ b_i = LenBatch
    /\ LET running_correct == Cardinality({k \in DOMAIN ans : ans[k] = 0})
       IN  correct' = correct + running_correct
    /\ wandb_logs' = IF use_wandb THEN wandb_logs + 1 ELSE wandb_logs
    /\ row' = EmptyFitbRow
    /\ pairs' = {}
    /\ pc' = "for"
    /\ UNCHANGED <<call, error, is_train, optimizer, scheduler, use_wandb,
                   remaining, iter, B, b_i, ans, total, triplets, running_loss,
                   total_loss, calls, theta, opt_steps, sched_steps, result,
                   offset, batch_means, demoVars>>

\* lines 116-119, when the dataloader is exhausted
EvalReturn ==
    /\ call = "evaluation" /\ pc = "for" /\ remaining = 0
    /\ IF total = 0
       THEN /\ pc' = "raised" /\ error' = "ZeroDivisionError"
            /\ UNCHANGED result
       ELSE /\ pc' = "done" /\ result' = <<correct, total>>
            /\ UNCHANGED error
    /\ UNCHANGED <<call, is_train, optimizer, scheduler, use_wandb, remaining,
                   iter, B, b_i, row, pairs, ans, correct, total, triplets,
                   running_loss, total_loss, calls, theta, opt_steps,
                   sched_steps, wandb_logs, offset, batch_means,
                   demoVars>>

\* ---------------------------------------------------------------- iteration
\* lines 140-145: the triplet of anchor a_i and negative n_i of a row
IterTriplet(anc_outputs, pos_outputs, neg_outputs, r, a_i, n_i) ==
    LET anc_category == r.anchors.category[a_i]
        pos_category == r.positives.category[0]
        anc_embed == anc_outputs.img_embed[pos_category][a_i]
        pos_embed == pos_outputs.img_embed[anc_category][0]
        neg_embed == neg_outputs.img_embed[anc_category][n_i]
    IN  [ a_i |-> a_i, p_i |-> 0, n_i |-> n_i,
          anc_cond |-> pos_category,   \* the category each was conditioned on
          pos_cond |-> anc_category,
          neg_cond |-> anc_category,
          anc_embed |-> anc_embed, pos_embed |-> pos_embed, neg_embed |-> neg_embed,
          loss |-> TripletMarginLoss(anc_embed, pos_embed, neg_embed) ]

\* IterTriplets with anchors and negatives walked in step (zip) instead of nested
IterTripletsZipped(th, r) ==
    LET anc_outputs == Forward(th, r.anchors)
        pos_outputs == Forward(th, r.positives)
        neg_outputs == Forward(th, r.negatives)
    IN  { IterTriplet(anc_outputs, pos_outputs, neg_outputs, r, k, k) :
            k \in (0 .. (NumUnpadded(r.anchors.input_mask) - 1))
                    \cap (0 .. (NumUnpadded(r.negatives.input_mask) - 1)) }

\* lines 138-145: every triplet formed for a row
IterTriplets(th, r) ==
    LET anc_outputs == Forward(th, r.anchors)
        pos_outputs == Forward(th, r.positives)
        neg_outputs == Forward(th, r.negatives)
    IN  { IterTriplet(anc_outputs, pos_outputs, neg_outputs, r, a_i, n_i) :
            a_i \in 0 .. (NumUnpadded(r.anchors.input_mask) - 1),
            n_i \in 0 .. (NumUnpadded(r.negatives.input_mask) - 1) }

EmptyTripletRow ==
    [anchors |-> EmptyInputs, positives |-> EmptyInputs, negatives |-> EmptyInputs]

\* the for-header of line 127 yields a batch; lines 128-136
IterNextBatch ==
    /\ call = "iteration" /\ pc = "for" /\ remaining > 0
    /\ remaining' = remaining - 1
    /\ iter' = iter + 1
    /\ running_loss' = [sum |-> 0, len |-> 0]
    /\ calls' = <<>>
    /\ b_i' = 0
    /\ pc' = "rows"
    /\ UNCHANGED <<call, error, is_train, optimizer, scheduler, use_wandb,
                   offset, B, row, pairs, ans, correct, total, triplets,
                   total_loss, theta, opt_steps, sched_steps, wandb_logs,
                   result, batch_means, demoVars>>

\* one pass of the loop of line 137 (lines 138-145)
IterRow ==
    /\ call = "iteration" /\ pc = "rows" /\ b_i < B
    /\   LET r == TripletRow(RowIndex(b_i))
             T == IterTriplets(theta, r)
         IN  /\ row' = r
             /\ triplets' = T
             /\ running_loss' =
                  [sum |-> running_loss.sum + SetSum([t \in T |-> t.loss], T),
                   len |-> running_loss.len + Cardinality(T)]
    /\ b_i' = b_i + 1
    /\ UNCHANGED <<call, pc, error, is_train, optimizer, scheduler, use_wandb,
                   remaining, iter, B, pairs, ans, correct, total, total_loss,
                   calls, theta, opt_steps, sched_steps, wandb_logs, result,
                   offset, batch_means, demoVars>>

\* lines 146-149: the batch loss, added to total_loss
IterMean ==
    /\ call = "iteration" /\ pc = "rows" /\ b_i = B
    /\ IF running_loss.len = 0
       THEN \* torch.stack of an empty list
            /\ pc' = "raised" /\ error' = "RuntimeError"
            /\ UNCHANGED <<total_loss, batch_means>>
       ELSE /\ total_loss' = FracAdd(total_loss, <<running_loss.sum, running_loss.len>>)
            /\ batch_means' = Append(batch_means, <<running_loss.sum, running_loss.len>>)
            /\ pc' = IF is_train = TRUE THEN "zero_grad" ELSE "log"
            /\ UNCHANGED error
    /\ row' = EmptyTripletRow
    /\ triplets' = {}
    /\ UNCHANGED <<call, is_train, optimizer, scheduler, use_wandb, remaining,
                   iter, B, b_i, pairs, ans, correct, total, running_loss, calls,
                   theta, opt_steps, sched_steps, wandb_logs, result, offset,
                   demoVars>>

\* line 150
ZeroGrad ==
    /\ call = "iteration" /\ pc = "zero_grad"
    /\ IF optimizer = "None"
       THEN /\ pc' = "raised" /\ error' = "AttributeError"
            /\ UNCHANGED calls
       ELSE /\ calls' = Append(calls, "zero_grad")
            /\ pc' = "backward"
            /\ UNCHANGED error
    /\ UNCHANGED <<call, is_train, optimizer, scheduler, use_wandb, remaining,
                   iter, B, b_i, row, pairs, ans, correct, total, triplets,
                   running_loss, total_loss, theta, opt_steps, sched_steps,
                   wandb_logs, result, offset, batch_means, demoVars>>

\* line 151
Backward ==
    /\ call = "iteration" /\ pc = "backward"
    /\ calls' = Append(calls, "backward")
    /\ pc' = "clip"
    /\ UNCHANGED <<call, error, is_train, optimizer, scheduler, use_wandb,
                   remaining, iter, B, b_i, row, pairs, ans, correct, total,
                   triplets, running_loss, total_loss, theta, opt_steps,
                   sched_steps, wandb_logs, result, offset,
                   batch_means, demoVars>>

\* line 152
ClipGradNorm ==
    /\ call = "iteration" /\ pc = "clip"
    /\ calls' = Append(calls, "clip_grad_norm_")
    /\ pc' = "step"
    /\ UNCHANGED <<call, error, is_train, optimizer, scheduler, use_wandb,
                   remaining, iter, B, b_i, row, pairs, ans, correct, total,
                   triplets, running_loss, total_loss, theta, opt_steps,
                   sched_steps, wandb_logs, result, offset,
                   batch_means, demoVars>>

\* OptimizerStep that never hands over to the scheduler
OptimizerStepNoScheduler ==
    /\ call = "iteration" /\ pc = "step"
    /\ calls' = Append(calls, "optimizer.step")
    /\ theta' = theta + 1
    /\ opt_steps' = opt_steps + 1
    /\ pc' = "log"
    /\ UNCHANGED <<call, error, is_train, optimizer, scheduler, use_wandb,
                   remaining, iter, B, b_i, row, pairs, ans, correct, total,
                   triplets, running_loss, total_loss, sched_steps, wandb_logs,
                   result, offset, batch_means, demoVars>>

\* lines 153-154
OptimizerStep ==
    /\ call = "iteration" /\ pc = "step"
    /\ calls' = Append(calls, "optimizer.step")
    /\ theta' = theta + 1
    /\ opt_steps' = opt_steps + 1
    /\ pc' = IF scheduler # "None" THEN "sched" ELSE "log"
    /\ UNCHANGED <<call, error, is_train, optimizer, scheduler, use_wandb,
                   remaining, iter, B, b_i, row, pairs, ans, correct, total,
                   triplets, running_loss, total_loss, sched_steps, wandb_logs,
                   result, offset, batch_means, demoVars>>

\* line 155
SchedulerStep ==
    /\ call = "iteration" /\ pc = "sched"
    /\ calls' = Append(calls, "scheduler.step")
    /\ sched_steps' = sched_steps + 1
    /\ pc' = "log"
    /\ UNCHANGED <<call, error, is_train, optimizer, scheduler, use_wandb,
                   remaining, iter, B, b_i, row, pairs, ans, correct, total,
                   triplets, running_loss, total_loss, theta, opt_steps,
                   wandb_logs, result, offset, batch_means, demoVars>>

\* lines 157-165
IterLog ==
    /\ call = "iteration" /\ pc = "log"
    /\ IF use_wandb /\ is_train = TRUE /\ scheduler = "None"
       THEN \* scheduler.get_last_lr() on None
            /\ pc' = "raised" /\ error' = "AttributeError"
            /\ UNCHANGED wandb_logs
       ELSE /\ wandb_logs' = IF use_wandb THEN wandb_logs + 1 ELSE wandb_logs
            /\ pc' = "for"
            /\ UNCHANGED error
    /\ UNCHANGED <<call, is_train, optimizer, scheduler, use_wandb, remaining,
                   iter, B, b_i, row, pairs, ans, correct, total, triplets,
                   running_loss, total_loss, calls, theta, opt_steps,
                   sched_steps, result, offset, batch_means, demoVars>>

\* lines 168-171, when the dataloader is exhausted
IterReturn ==
    /\ call = "iteration" /\ pc = "for" /\ remaining = 0
    /\ IF iter = 0
       THEN \* `iter` was never bound
            /\ pc' = "raised" /\ error' = "UnboundLocalError"
            /\ UNCHANGED result
       ELSE /\ pc' = "done" /\ result' = <<total_loss[1], total_loss[2] * iter>>
            /\ UNCHANGED error
    /\ UNCHANGED <<call, is_train, optimizer, scheduler, use_wandb, remaining,
                   iter, B, b_i, row, pairs, ans, correct, total, triplets,
                   running_loss, total_loss, calls, theta, opt_steps,
                   sched_steps, wandb_logs, offset, batch_means,
                   demoVars>>

\* ---------------------------------------------------------------- demo
\* browser sessions of the one demo process; `items` is manager.items, the
\* list of the single OutfitManager that demo() creates; gallery[u] is the value
\* of inputs_gallery and outfit_selected_idx[u] the gr.State of session u
Users == 1 .. NumUsers
Images == 1 .. MaxImage

\* None is [is_none |-> TRUE]; a list of images otherwise
None == [is_none |-> TRUE, images |-> <<>>]

\* OutfitManager.image_preview
ImagePreview(its) ==
    IF its # <<>>
    THEN [is_none |-> FALSE, images |-> [i \in 1 .. Len(its) |-> its[i].image]]
    ELSE None

\* list.pop(idx), idx 0-based
Pop(its, idx) ==
    [i \in 1 .. (Len(its) - 1) |-> IF i <= idx THEN its[i] ELSE its[i + 1]]

\* btn_add_to_inputs.click: manager.add, and the selection is reset
AddItem(u) ==
    /\ call = "demo" /\ Len(items) < MaxOutfit
    /\ \E image \in Images :
         items' = Append(items, [image |-> image, description |-> "desc",
                                 category |-> "tops"])
    /\ gallery' = [gallery EXCEPT ![u] = ImagePreview(items')]
    /\ outfit_selected_idx' = [outfit_selected_idx EXCEPT ![u] = {}]
    /\ UNCHANGED <<call, csaVars, task, sent>>

\* inputs_gallery.select: get_selected_idx
SelectItem(u) ==
    /\ call = "demo"
    /\ \E index \in 0 .. (Len(gallery[u].images) - 1) :
         outfit_selected_idx' = [outfit_selected_idx EXCEPT ![u] = {index}]
    /\ UNCHANGED <<call, csaVars, task, items, gallery, sent>>

\* btn_inputs_gallery_clear.click: manager.clear
ClearItems(u) ==
    /\ call = "demo"
    /\ items' = <<>>
    /\ gallery' = [gallery EXCEPT ![u] = ImagePreview(items')]
    /\ outfit_selected_idx' = [outfit_selected_idx EXCEPT ![u] = {}]
    /\ UNCHANGED <<call, csaVars, task, sent>>

\* btn_inputs_gallery_delete.click: manager.delete(idx); idx is None ({}) or
\* an integer ({idx})
DeleteItem(u) ==
    /\ call = "demo"
    /\ items' = IF \E idx \in outfit_selected_idx[u] : 0 <= idx /\ idx < Len(items)
                THEN Pop(items, CHOOSE idx \in outfit_selected_idx[u] : TRUE)
                ELSE items
    /\ gallery' = [gallery EXCEPT ![u] = ImagePreview(items')]
    /\ outfit_selected_idx' = [outfit_selected_idx EXCEPT ![u] = {}]
    /\ UNCHANGED <<call, csaVars, task, sent>>

\* btn_evaluate.click: pipeline.predict(outfits=[Outfit(items=manager.items)])
Evaluate(u) ==
    /\ call = "demo" /\ task = "cp"
    /\ sent' = <<[by |-> u, items |-> items]>>
    /\ UNCHANGED <<call, csaVars, task, items, gallery, outfit_selected_idx>>

\* btn_search.click: pipeline.search(queries=[Query(items=manager.items)])
Search(u) ==
    /\ call = "demo" /\ task = "cir"
    /\ sent' = <<[by |-> u, items |-> items]>>
    /\ UNCHANGED <<call, csaVars, task, items, gallery, outfit_selected_idx>>

\* ---------------------------------------------------------------- specifications
\* demo(): a fresh manager; every session starts with an empty gallery
DemoStart ==
    /\ items = <<>> /\ sent = <<>>
    /\ gallery = [u \in Users |-> None]
    /\ outfit_selected_idx = [u \in Users |-> {}]

CsaStart ==
    /\ pc = "for" /\ error = ""
    /\ iter = 0 /\ b_i = 0
    /\ row = (IF call = "iteration" THEN EmptyTripletRow ELSE EmptyFitbRow)
    /\ pairs = {} /\ ans = <<>> /\ correct = 0 /\ total = 0
    /\ triplets = {} /\ running_loss = [sum |-> 0, len |-> 0]
    /\ total_loss = <<0, 1>>
    /\ calls = <<>> /\ theta = 0 /\ opt_steps = 0 /\ sched_steps = 0
    /\ wandb_logs = 0 /\ result = <<>>
    /\ batch_means = <<>>

Init ==
    /\ call \in {"evaluation", "iteration"}
    /\ use_wandb \in BOOLEAN
    /\ is_train \in (IF call = "iteration" THEN BOOLEAN ELSE {FALSE})
    /\ optimizer = (IF is_train THEN "AdamW" ELSE "None")
    /\ scheduler \in (IF call = "iteration" THEN {"StepLR", "None"} ELSE {"None"})
    /\ remaining \in 0 .. MaxBatches
    /\ B \in 1 .. (IF call = "iteration" THEN MaxTripletBatch ELSE MaxFitbBatch)
    /\ offset \in 0 .. ((IF call = "iteration" THEN NumTripletRows ELSE NumFitbRows) - 1)
    /\ CsaStart
    /\ task = "cp" /\ DemoStart

Next ==
    \/ EvalNextBatch \/ EvalRow \/ EvalTally \/ EvalReturn
    \/ IterNextBatch \/ IterRow \/ IterMean
    \/ ZeroGrad \/ Backward \/ ClipGradNorm \/ OptimizerStep \/ SchedulerStep
    \/ IterLog \/ IterReturn

Spec == Init /\ [][Next]_vars

DemoInit ==
    /\ call = "demo"
    /\ task \in {"cp", "cir"}
    /\ DemoStart
    /\ use_wandb = FALSE /\ is_train = FALSE
    /\ optimizer = "None" /\ scheduler = "None" /\ remaining = 0
    /\ B = 1 /\ offset = 0
    /\ CsaStart

DemoNext ==
    \E u \in Users :
        \/ AddItem(u) \/ SelectItem(u) \/ ClearItems(u) \/ DeleteItem(u)
        \/ Evaluate(u) \/ Search(u)

SpecDemo == DemoInit /\ [][DemoNext]_vars

\* ---------------------------------------------------------------- properties
\* the positions of a tensor row that are not padding
Unpadded(mask) == {i \in DOMAIN mask : ~mask[i]}

RowScored == pc = "rows" /\ b_i > 0

\* the dataset rows of the questions the dataloader has yielded so far
Yielded == {offset + j : j \in 0 .. (iter * B - 1)}

\* the candidate at index 0 is the closest one (first among equals)
AnsweredRight(k) ==
    LET r == FitbRow(k)
        dists == Dists(EvalPairs(theta, r), r)
    IN  DOMAIN dists # {} /\ ArgMin(dists) = 0

\* C1: evaluation scores every question of every batch exactly once: when it
\* returns, total is the number of questions the dataloader yielded and the
\* value is (the number of them answered right) / total.
C1_EveryQuestionScored ==
    (call = "evaluation" /\ pc = "done") =>
        /\ total = Cardinality(Yielded)
        /\ result = <<Cardinality({k \in Yielded : AnsweredRight(k)}), total>>

\* C2: the positions that enter a distance are exactly the unpadded ones: no
\* padded position of a row read is used, a row with items on both sides uses
\* all of them, and when the loop over a batch has ended every row of the
\* batch was read.
C2_ExactlyUnpaddedContribute ==
    /\ (call = "evaluation" /\ RowScored) =>
         LET Q == Unpadded(row.questions.input_mask)
             C == Unpadded(row.candidates.input_mask)
         IN  /\ {p.q_i : p \in pairs} \subseteq Q
             /\ {p.c_i : p \in pairs} \subseteq C
             /\ (Q # {} /\ C # {}) =>
                   {<<p.q_i, p.c_i>> : p \in pairs} = Q \X C
    /\ (call = "iteration" /\ RowScored) =>
         LET A == Unpadded(row.anchors.input_mask)
             N == Unpadded(row.negatives.input_mask)
         IN  /\ {t.a_i : t \in triplets} \subseteq A
             /\ {t.n_i : t \in triplets} \subseteq N
             /\ (A # {} /\ N # {}) =>
                   {<<t.a_i, t.n_i>> : t \in triplets} = A \X N
    /\ (call \in {"evaluation", "iteration"} /\ pc = "for" /\ iter > 0) => b_i = B

\* the margin-0.3 triplet loss of anchor a_i and negative n_i of row r, with
\* the positive at index 0, written out
LossOf(th, r, a_i, n_i) ==
    LET anc == GetEmbedding(th, r.anchors, r.positives.category[0])[a_i]
        pos == GetEmbedding(th, r.positives, r.anchors.category[a_i])[0]
        neg == GetEmbedding(th, r.negatives, r.anchors.category[a_i])[n_i]
        d == 10 * Abs(anc - pos) - 10 * Abs(anc - neg) + 3
    IN  IF d > 0 THEN d ELSE 0

\* the (unpadded anchor, unpadded negative) pairs of row b of the batch
PairsOf(b) ==
    LET r == TripletRow(RowIndex(b))
    IN  Unpadded(r.anchors.input_mask) \X Unpadded(r.negatives.input_mask)

\* number and summed loss of the pairs of the first n rows of the batch
PairsDue(n) == SetSum([b \in 0 .. (n - 1) |-> Cardinality(PairsOf(b))], 0 .. (n - 1))
LossDue(th, n) ==
    SetSum([b \in 0 .. (n - 1) |->
              SetSum([x \in PairsOf(b) |->
                        LossOf(th, TripletRow(RowIndex(b)), x[1], x[2])],
                     PairsOf(b))],
           0 .. (n - 1))

\* C3: a row yields exactly one triplet per (unpadded anchor, unpadded negative)
\* pair, each with the positive at index 0 and the margin-0.3 triplet loss;
\* the list of a batch has sum over its rows of #anchors * #negatives entries,
\* and the batch loss is the sum of their losses divided by that number.
C3_TripletsPerPair ==
    /\ (call = "iteration" /\ RowScored) =>
         /\ {<<t.a_i, t.n_i>> : t \in triplets} = PairsOf(b_i - 1)
         /\ Cardinality(triplets) = Cardinality(PairsOf(b_i - 1))
         /\ \A t \in triplets :
              /\ t.p_i = 0
              /\ t.loss = LossOf(theta, row, t.a_i, t.n_i)
         /\ running_loss.len = PairsDue(b_i)
         /\ running_loss.sum = LossDue(theta, b_i)
    /\ (call = "iteration" /\ iter > 0 /\ Len(batch_means) = iter) =>
         LET th == IF is_train THEN iter - 1 ELSE 0   \* the parameters of the batch
         IN  /\ PairsDue(B) > 0
             /\ batch_means[iter] = <<LossDue(th, B), PairsDue(B)>>

C3_Witness ==
    /\ call = "iteration" /\ RowScored /\ b_i = 2
    /\ Cardinality(triplets) = 4
    /\ running_loss.len > 4
    /\ \E t \in triplets : t.loss > 0

\* the conditioning that both methods share: question and candidate condition
\* on each other's category; anchor and positive condition on each other's
\* category; the negative is conditioned on the anchor's category
ConditioningInCode ==
    /\ (call = "evaluation" /\ RowScored) =>
         \A p \in pairs :
            /\ p.q_cond = row.candidates.category[p.c_i]
            /\ p.c_cond = row.questions.category[p.q_i]
            /\ p.q = GetEmbedding(theta, row.questions,
                                   row.candidates.category[p.c_i])[p.q_i]
            /\ p.c = GetEmbedding(theta, row.candidates,
                                   row.questions.category[p.q_i])[p.c_i]
    /\ (call = "iteration" /\ RowScored) =>
         \A t \in triplets :
            /\ t.anc_cond = row.positives.category[0]
            /\ t.pos_cond = row.anchors.category[t.a_i]
            /\ t.neg_cond = row.anchors.category[t.a_i]
            /\ t.anc_embed = GetEmbedding(theta, row.anchors,
                                           row.positives.category[0])[t.a_i]
            /\ t.pos_embed = GetEmbedding(theta, row.positives,
                                           row.anchors.category[t.a_i])[0]
            /\ t.neg_embed = GetEmbedding(theta, row.negatives,
                                           row.anchors.category[t.a_i])[t.n_i]

\* C4 as stated: conditioning is mutual for every distance, the anchor-negative
\* distance of a triplet included (the anchor is conditioned on the negative's
\* category there).
C4_MutualEverywhere ==
    /\ ConditioningInCode
    /\ (call = "iteration" /\ RowScored) =>
         \A t \in triplets : t.anc_cond = row.negatives.category[t.n_i]

\* C4 amended: conditioning is mutual between question and candidate and
\* between anchor and positive; in the anchor-negative distance the negative is
\* conditioned on the anchor's category and the anchor on the positive's
\* category, which is the negative's category only when the two are equal.
C4_Conditioning ==
    /\ ConditioningInCode
    /\ (call = "iteration" /\ RowScored) =>
         \A t \in triplets :
            (t.anc_cond = row.negatives.category[t.n_i])
               <=> (row.positives.category[0] = row.negatives.category[t.n_i])

C4_Witness ==
    /\ call = "iteration" /\ RowScored
    /\ \E t \in triplets :
         /\ row.negatives.category[t.n_i] # row.positives.category[0]
         /\ t.anc_cond = row.positives.category[0]
         /\ t.neg_cond = row.anchors.category[t.a_i]

\* C5: the gallery of every session shows exactly the images of the items that
\* Evaluate or Search would send, and is None exactly when there are none.
C5_GalleryShowsOutfit ==
    call = "demo" => \A u \in Users : gallery[u] = ImagePreview(items)

\* the update calls of one training batch, in order
UpdateOrder ==
    <<"zero_grad", "backward", "clip_grad_norm_", "optimizer.step">>
        \o (IF scheduler # "None" THEN <<"scheduler.step">> ELSE <<>>)

\* C6: a training batch makes the update calls once each in the order zero_grad,
\* backward, clipping, optimizer.step, scheduler.step (when given); validation
\* makes none of them and leaves parameters, optimizer and scheduler untouched.
C6_UpdateOrder ==
    call = "iteration" =>
        /\ ~is_train =>
             /\ calls = <<>> /\ theta = 0 /\ opt_steps = 0 /\ sched_steps = 0
             /\ pc \notin {"zero_grad", "backward", "clip", "step", "sched"}
        /\ is_train =>
             /\ Len(calls) <= Len(UpdateOrder)
             /\ calls = SubSeq(UpdateOrder, 1, Len(calls))
             /\ pc = "log" => calls = UpdateOrder
             /\ pc = "for" =>
                  /\ opt_steps = iter /\ theta = iter
                  /\ sched_steps = (IF scheduler # "None" THEN iter ELSE 0)
                  /\ iter > 0 => calls = UpdateOrder

C6_Witness ==
    /\ call = "iteration" /\ is_train /\ scheduler # "None"
    /\ pc = "for" /\ iter = 2
    /\ opt_steps = 2 /\ sched_steps = 2
    /\ calls = UpdateOrder

\* C7: a training call without a scheduler never fails for the lack of it,
\* whatever use_wandb is.
C7_SchedulerOptional ==
    (call = "iteration" /\ is_train /\ optimizer # "None" /\ scheduler = "None")
        => error # "AttributeError"

\* C8: iteration returns the mean of the batch losses and evaluation a value
\* in [0, 1] with correct <= total throughout, and neither fails on an empty
\* dataloader, a batch without triplets or a question without candidates.
C8_MeansDefined ==
    /\ (call = "iteration" /\ pc = "done") =>
         FracEq(result, <<FracSum(batch_means)[1],
                          FracSum(batch_means)[2] * Len(batch_means)>>)
    /\ call = "evaluation" =>
         /\ correct <= total
         /\ pc = "done" => (result[2] > 0 /\ 0 <= result[1] /\ result[1] <= result[2])
    /\ error \notin {"UnboundLocalError", "ZeroDivisionError", "RuntimeError",
                     "ValueError"}

====
